---- MODULE Spec2Model ----
(***************************************************************************)
(* Model of pico_reaction_game.py: the main game loop of run_game and the  *)
(* serial_reader thread that feeds it through event_queue.                 *)
(*                                                                         *)
(* Time is counted in whole clock units; every captured "now" is an        *)
(* integer.  Bytes are one-character strings.                              *)
(***************************************************************************)
EXTENDS Integers, Sequences, FiniteSets, TLC

VARIABLES
    pc,             \* position of the main loop inside run_game
    now,            \* run_game: now (last value captured at line 93)
    score,          \* run_game: score
    lives,          \* run_game: lives
    round_no,       \* run_game: round_no
    target,         \* run_game: target (None or a direction)
    prompt_time,    \* run_game: prompt_time
    max_reaction,   \* run_game: max_reaction (args.reaction_time, a float)
    last_info_msg,  \* run_game: last_info_msg
    last_error_msg, \* run_game: last_error_msg
    action,         \* run_game: action (candidate of the current frame)
    key,            \* run_game: key (result of the last getch)
    event_queue,    \* queue.Queue shared by the two threads
    stop_event,     \* threading.Event
    rpc,            \* position of the serial_reader thread
    buf,            \* serial_reader: buf
    wire,           \* bytes the device sends that ser.read has not returned yet
    ser             \* state of the serial handle: "none", "open", "closed"

vars == <<pc, now, score, lives, round_no, target, prompt_time, max_reaction,
          last_info_msg, last_error_msg, action, key, event_queue,
          stop_event, rpc, buf, wire, ser>>

gameVars == <<score, lives, round_no, target, prompt_time, last_info_msg>>
readerVars == <<rpc, buf, wire, ser>>

(***************************************************************************)
(* Bounds of the model.                                                    *)
(***************************************************************************)
MaxNow == 4      \* the clock is followed up to this value
MaxDt == 2       \* largest advance of the clock between two frames

None == "None"

(***************************************************************************)
(* Floats: args.reaction_time is any float argparse accepts, nan included. *)
(* Every comparison with nan is false.                                     *)
(***************************************************************************)
Num(v) == [nan |-> FALSE, val |-> v]
NaN == [nan |-> TRUE, val |-> 0]
ReactionTimes == {Num(0 - 1), Num(1), NaN}

FloatGt(x, w) == (~w.nan) /\ x > w.val
FloatLe(x, w) == (~w.nan) /\ x <= w.val

directions == <<"UP", "DOWN", "LEFT", "RIGHT">>
Directions == {directions[i] : i \in 1..Len(directions)}

(***************************************************************************)
(* serial_reader: line framing.  A byte is a number in 0..255, a character *)
(* of the decoded text is its code point.                                  *)
(***************************************************************************)
\* the printable ASCII characters from code 32 to code 95 and from code 97
\* to code 126
Printable ==
    << " ", "!", "\"", "#", "$", "%", "&", "'", "(", ")", "*", "+",
       ",", "-", ".", "/", "0", "1", "2", "3", "4", "5", "6", "7",
       "8", "9", ":", ";", "<", "=", ">", "?", "@", "A", "B", "C",
       "D", "E", "F", "G", "H", "I", "J", "K", "L", "M", "N", "O",
       "P", "Q", "R", "S", "T", "U", "V", "W", "X", "Y", "Z", "[",
       "\\", "]", "^", "_" >>
PrintableLower ==
    << "a", "b", "c", "d", "e", "f", "g", "h", "i", "j", "k", "l",
       "m", "n", "o", "p", "q", "r", "s", "t", "u", "v", "w", "x",
       "y", "z", "{", "|", "}", "~" >>

\* ord(c) of an ASCII character
Ord(c) ==
    CASE c = "\t" -> 9
      [] c = "\n" -> 10
      [] c = "\f" -> 12
      [] c = "\r" -> 13
      [] \E i \in 1..Len(Printable) : Printable[i] = c
           -> 31 + CHOOSE i \in 1..Len(Printable) : Printable[i] = c
      [] \E i \in 1..Len(PrintableLower) : PrintableLower[i] = c
           -> 96 + CHOOSE i \in 1..Len(PrintableLower) : PrintableLower[i] = c

\* the bytes of an ASCII string; a byte is a number in 0..255
Ascii(s) == [i \in 1..Len(s) |-> Ord(s[i])]

\* b"\n"
Newline == 10
\* the byte 0xFF, which is valid nowhere in UTF-8
InvalidByte == 255
\* the whitespace of bytes.strip(): space, \t, \n, \r, \x0b, \f
Whitespace == {32, 9, 10, 13, 11, 12}

\* str.upper() of the characters above ASCII that change to one character:
\* <<lo, hi, step, delta>> maps lo, lo + step, .., hi to themselves + delta
\* (Unicode 14.0.0, the database of the Python 3.11 that runs the program)
UpperRuns ==
    {
      <<181, 181, 1, 743>>, <<224, 246, 1, -32>>, <<248, 254, 1, -32>>, <<255, 255, 1, 121>>,
      <<257, 303, 2, -1>>, <<305, 305, 1, -232>>, <<307, 311, 2, -1>>, <<314, 328, 2, -1>>,
      <<331, 375, 2, -1>>, <<378, 382, 2, -1>>, <<383, 383, 1, -300>>, <<384, 384, 1, 195>>,
      <<387, 389, 2, -1>>, <<392, 392, 1, -1>>, <<396, 396, 1, -1>>, <<402, 402, 1, -1>>,
      <<405, 405, 1, 97>>, <<409, 409, 1, -1>>, <<410, 410, 1, 163>>, <<414, 414, 1, 130>>,
      <<417, 421, 2, -1>>, <<424, 424, 1, -1>>, <<429, 429, 1, -1>>, <<432, 432, 1, -1>>,
      <<436, 438, 2, -1>>, <<441, 441, 1, -1>>, <<445, 445, 1, -1>>, <<447, 447, 1, 56>>,
      <<453, 453, 1, -1>>, <<454, 454, 1, -2>>, <<456, 456, 1, -1>>, <<457, 457, 1, -2>>,
      <<459, 459, 1, -1>>, <<460, 460, 1, -2>>, <<462, 476, 2, -1>>, <<477, 477, 1, -79>>,
      <<479, 495, 2, -1>>, <<498, 498, 1, -1>>, <<499, 499, 1, -2>>, <<501, 501, 1, -1>>,
      <<505, 543, 2, -1>>, <<547, 563, 2, -1>>, <<572, 572, 1, -1>>, <<575, 576, 1, 10815>>,
      <<578, 578, 1, -1>>, <<583, 591, 2, -1>>, <<592, 592, 1, 10783>>, <<593, 593, 1, 10780>>,
      <<594, 594, 1, 10782>>, <<595, 595, 1, -210>>, <<596, 596, 1, -206>>, <<598, 599, 1, -205>>,
      <<601, 601, 1, -202>>, <<603, 603, 1, -203>>, <<604, 604, 1, 42319>>, <<608, 608, 1, -205>>,
      <<609, 609, 1, 42315>>, <<611, 611, 1, -207>>, <<613, 613, 1, 42280>>, <<614, 614, 1, 42308>>,
      <<616, 616, 1, -209>>, <<617, 617, 1, -211>>, <<618, 618, 1, 42308>>, <<619, 619, 1, 10743>>,
      <<620, 620, 1, 42305>>, <<623, 623, 1, -211>>, <<625, 625, 1, 10749>>, <<626, 626, 1, -213>>,
      <<629, 629, 1, -214>>, <<637, 637, 1, 10727>>, <<640, 640, 1, -218>>, <<642, 642, 1, 42307>>,
      <<643, 643, 1, -218>>, <<647, 647, 1, 42282>>, <<648, 648, 1, -218>>, <<649, 649, 1, -69>>,
      <<650, 651, 1, -217>>, <<652, 652, 1, -71>>, <<658, 658, 1, -219>>, <<669, 669, 1, 42261>>,
      <<670, 670, 1, 42258>>, <<837, 837, 1, 84>>, <<881, 883, 2, -1>>, <<887, 887, 1, -1>>,
      <<891, 893, 1, 130>>, <<940, 940, 1, -38>>, <<941, 943, 1, -37>>, <<945, 961, 1, -32>>,
      <<962, 962, 1, -31>>, <<963, 971, 1, -32>>, <<972, 972, 1, -64>>, <<973, 974, 1, -63>>,
      <<976, 976, 1, -62>>, <<977, 977, 1, -57>>, <<981, 981, 1, -47>>, <<982, 982, 1, -54>>,
      <<983, 983, 1, -8>>, <<985, 1007, 2, -1>>, <<1008, 1008, 1, -86>>, <<1009, 1009, 1, -80>>,
      <<1010, 1010, 1, 7>>, <<1011, 1011, 1, -116>>, <<1013, 1013, 1, -96>>, <<1016, 1016, 1, -1>>,
      <<1019, 1019, 1, -1>>, <<1072, 1103, 1, -32>>, <<1104, 1119, 1, -80>>, <<1121, 1153, 2, -1>>,
      <<1163, 1215, 2, -1>>, <<1218, 1230, 2, -1>>, <<1231, 1231, 1, -15>>, <<1233, 1327, 2, -1>>,
      <<1377, 1414, 1, -48>>, <<4304, 4346, 1, 3008>>, <<4349, 4351, 1, 3008>>, <<5112, 5117, 1, -8>>,
      <<7296, 7296, 1, -6254>>, <<7297, 7297, 1, -6253>>, <<7298, 7298, 1, -6244>>, <<7299, 7300, 1, -6242>>,
      <<7301, 7301, 1, -6243>>, <<7302, 7302, 1, -6236>>, <<7303, 7303, 1, -6181>>, <<7304, 7304, 1, 35266>>,
      <<7545, 7545, 1, 35332>>, <<7549, 7549, 1, 3814>>, <<7566, 7566, 1, 35384>>, <<7681, 7829, 2, -1>>,
      <<7835, 7835, 1, -59>>, <<7841, 7935, 2, -1>>, <<7936, 7943, 1, 8>>, <<7952, 7957, 1, 8>>,
      <<7968, 7975, 1, 8>>, <<7984, 7991, 1, 8>>, <<8000, 8005, 1, 8>>, <<8017, 8023, 2, 8>>,
      <<8032, 8039, 1, 8>>, <<8048, 8049, 1, 74>>, <<8050, 8053, 1, 86>>, <<8054, 8055, 1, 100>>,
      <<8056, 8057, 1, 128>>, <<8058, 8059, 1, 112>>, <<8060, 8061, 1, 126>>, <<8112, 8113, 1, 8>>,
      <<8126, 8126, 1, -7205>>, <<8144, 8145, 1, 8>>, <<8160, 8161, 1, 8>>, <<8165, 8165, 1, 7>>,
      <<8526, 8526, 1, -28>>, <<8560, 8575, 1, -16>>, <<8580, 8580, 1, -1>>, <<9424, 9449, 1, -26>>,
      <<11312, 11359, 1, -48>>, <<11361, 11361, 1, -1>>, <<11365, 11365, 1, -10795>>, <<11366, 11366, 1, -10792>>,
      <<11368, 11372, 2, -1>>, <<11379, 11379, 1, -1>>, <<11382, 11382, 1, -1>>, <<11393, 11491, 2, -1>>,
      <<11500, 11502, 2, -1>>, <<11507, 11507, 1, -1>>, <<11520, 11557, 1, -7264>>, <<11559, 11559, 1, -7264>>,
      <<11565, 11565, 1, -7264>>, <<42561, 42605, 2, -1>>, <<42625, 42651, 2, -1>>, <<42787, 42799, 2, -1>>,
      <<42803, 42863, 2, -1>>, <<42874, 42876, 2, -1>>, <<42879, 42887, 2, -1>>, <<42892, 42892, 1, -1>>,
      <<42897, 42899, 2, -1>>, <<42900, 42900, 1, 48>>, <<42903, 42921, 2, -1>>, <<42933, 42947, 2, -1>>,
      <<42952, 42954, 2, -1>>, <<42961, 42961, 1, -1>>, <<42967, 42969, 2, -1>>, <<42998, 42998, 1, -1>>,
      <<43859, 43859, 1, -928>>, <<43888, 43967, 1, -38864>>, <<65345, 65370, 1, -32>>, <<66600, 66639, 1, -40>>,
      <<66776, 66811, 1, -40>>, <<66967, 67003, 2, -39>>, <<66968, 66976, 2, -39>>, <<66980, 66992, 2, -39>>,
      <<66996, 67000, 2, -39>>, <<67004, 67004, 1, -39>>, <<68800, 68850, 1, -64>>, <<71872, 71903, 1, -32>>,
      <<93792, 93823, 1, -32>>, <<125218, 125251, 1, -34>> }

\* str.upper() of the characters that change to several characters
UpperMulti ==
    {
      <<223, <<83, 83>>>>, <<329, <<700, 78>>>>, <<496, <<74, 780>>>>,
      <<912, <<921, 776, 769>>>>, <<944, <<933, 776, 769>>>>, <<1415, <<1333, 1362>>>>,
      <<7830, <<72, 817>>>>, <<7831, <<84, 776>>>>, <<7832, <<87, 778>>>>,
      <<7833, <<89, 778>>>>, <<7834, <<65, 702>>>>, <<8016, <<933, 787>>>>,
      <<8018, <<933, 787, 768>>>>, <<8020, <<933, 787, 769>>>>, <<8022, <<933, 787, 834>>>>,
      <<8064, <<7944, 921>>>>, <<8065, <<7945, 921>>>>, <<8066, <<7946, 921>>>>,
      <<8067, <<7947, 921>>>>, <<8068, <<7948, 921>>>>, <<8069, <<7949, 921>>>>,
      <<8070, <<7950, 921>>>>, <<8071, <<7951, 921>>>>, <<8072, <<7944, 921>>>>,
      <<8073, <<7945, 921>>>>, <<8074, <<7946, 921>>>>, <<8075, <<7947, 921>>>>,
      <<8076, <<7948, 921>>>>, <<8077, <<7949, 921>>>>, <<8078, <<7950, 921>>>>,
      <<8079, <<7951, 921>>>>, <<8080, <<7976, 921>>>>, <<8081, <<7977, 921>>>>,
      <<8082, <<7978, 921>>>>, <<8083, <<7979, 921>>>>, <<8084, <<7980, 921>>>>,
      <<8085, <<7981, 921>>>>, <<8086, <<7982, 921>>>>, <<8087, <<7983, 921>>>>,
      <<8088, <<7976, 921>>>>, <<8089, <<7977, 921>>>>, <<8090, <<7978, 921>>>>,
      <<8091, <<7979, 921>>>>, <<8092, <<7980, 921>>>>, <<8093, <<7981, 921>>>>,
      <<8094, <<7982, 921>>>>, <<8095, <<7983, 921>>>>, <<8096, <<8040, 921>>>>,
      <<8097, <<8041, 921>>>>, <<8098, <<8042, 921>>>>, <<8099, <<8043, 921>>>>,
      <<8100, <<8044, 921>>>>, <<8101, <<8045, 921>>>>, <<8102, <<8046, 921>>>>,
      <<8103, <<8047, 921>>>>, <<8104, <<8040, 921>>>>, <<8105, <<8041, 921>>>>,
      <<8106, <<8042, 921>>>>, <<8107, <<8043, 921>>>>, <<8108, <<8044, 921>>>>,
      <<8109, <<8045, 921>>>>, <<8110, <<8046, 921>>>>, <<8111, <<8047, 921>>>>,
      <<8114, <<8122, 921>>>>, <<8115, <<913, 921>>>>, <<8116, <<902, 921>>>>,
      <<8118, <<913, 834>>>>, <<8119, <<913, 834, 921>>>>, <<8124, <<913, 921>>>>,
      <<8130, <<8138, 921>>>>, <<8131, <<919, 921>>>>, <<8132, <<905, 921>>>>,
      <<8134, <<919, 834>>>>, <<8135, <<919, 834, 921>>>>, <<8140, <<919, 921>>>>,
      <<8146, <<921, 776, 768>>>>, <<8147, <<921, 776, 769>>>>, <<8150, <<921, 834>>>>,
      <<8151, <<921, 776, 834>>>>, <<8162, <<933, 776, 768>>>>, <<8163, <<933, 776, 769>>>>,
      <<8164, <<929, 787>>>>, <<8166, <<933, 834>>>>, <<8167, <<933, 776, 834>>>>,
      <<8178, <<8186, 921>>>>, <<8179, <<937, 921>>>>, <<8180, <<911, 921>>>>,
      <<8182, <<937, 834>>>>, <<8183, <<937, 834, 921>>>>, <<8188, <<937, 921>>>>,
      <<64256, <<70, 70>>>>, <<64257, <<70, 73>>>>, <<64258, <<70, 76>>>>,
      <<64259, <<70, 70, 73>>>>, <<64260, <<70, 70, 76>>>>, <<64261, <<83, 84>>>>,
      <<64262, <<83, 84>>>>, <<64275, <<1348, 1350>>>>, <<64276, <<1348, 1333>>>>,
      <<64277, <<1348, 1339>>>>, <<64278, <<1358, 1350>>>>, <<64279, <<1348, 1341>>>> }

\* str.upper() on one character (a code point): the characters it becomes
UpperChar(c) ==
    IF c < 128
    THEN (IF c \in 97..122 THEN <<c - 32>> ELSE <<c>>)
    ELSE LET m == {p \in UpperMulti : p[1] = c}
             r == {p \in UpperRuns : p[1] <= c /\ c <= p[2] /\ (c - p[1]) % p[3] = 0}
         IN  IF m # {} THEN (CHOOSE p \in m : TRUE)[2]
             ELSE IF r # {} THEN <<c + (CHOOSE p \in r : TRUE)[4]>>
             ELSE <<c>>

\* str.upper() from character i on
RECURSIVE UpperFrom(_, _)
UpperFrom(s, i) == IF i > Len(s) THEN <<>> ELSE UpperChar(s[i]) \o UpperFrom(s, i + 1)

\* str.upper()
Upper(s) == UpperFrom(s, 1)

\* UTF-8: the length of the sequence a lead byte announces, 0 for a byte that
\* cannot start a sequence
Need(x) ==
    IF 194 <= x /\ x <= 223 THEN 2
    ELSE IF 224 <= x /\ x <= 239 THEN 3
    ELSE IF 240 <= x /\ x <= 244 THEN 4
    ELSE 0
\* UTF-8: the range of the byte that follows the lead byte x
Lo2(x) == IF x = 224 THEN 160 ELSE IF x = 240 THEN 144 ELSE 128
Hi2(x) == IF x = 237 THEN 159 ELSE IF x = 244 THEN 143 ELSE 191
\* UTF-8: b[i + j] is a valid j-th continuation byte of the sequence at i
ContOk(b, i, j) ==
    /\ i + j <= Len(b)
    /\ IF j = 1 THEN Lo2(b[i]) <= b[i + j] /\ b[i + j] <= Hi2(b[i])
                ELSE 128 <= b[i + j] /\ b[i + j] <= 191
\* UTF-8: how many valid continuation bytes follow the lead byte at i
Good(b, i) ==
    IF Need(b[i]) = 0 THEN 0
    ELSE CHOOSE g \in 0..(Need(b[i]) - 1) :
            /\ \A j \in 1..g : ContOk(b, i, j)
            /\ g = Need(b[i]) - 1 \/ ~ContOk(b, i, g + 1)
\* UTF-8: the code point of the complete sequence of n bytes at i
CodePoint(b, i, n) ==
    IF n = 2 THEN (b[i] - 192) * 64 + (b[i + 1] - 128)
    ELSE IF n = 3 THEN (b[i] - 224) * 4096 + (b[i + 1] - 128) * 64 + (b[i + 2] - 128)
    ELSE (b[i] - 240) * 262144 + (b[i + 1] - 128) * 4096
            + (b[i + 2] - 128) * 64 + (b[i + 3] - 128)

\* the character U+FFFD
ReplacementChar == 65533

\* bytes.decode(errors=errors) from byte i on: a complete sequence gives its
\* character; an invalid or cut sequence is dropped ("ignore") or gives
\* U+FFFD ("replace"), and decoding goes on after it
RECURSIVE DecodeFrom(_, _, _)
DecodeFrom(b, i, errors) ==
    IF i > Len(b) THEN <<>>
    ELSE IF b[i] < 128 THEN <<b[i]>> \o DecodeFrom(b, i + 1, errors)
    ELSE IF Need(b[i]) > 0 /\ Good(b, i) = Need(b[i]) - 1
         THEN <<CodePoint(b, i, Need(b[i]))>> \o DecodeFrom(b, i + Need(b[i]), errors)
         ELSE (IF errors = "replace" THEN <<ReplacementChar>> ELSE <<>>)
                 \o DecodeFrom(b, i + 1 + Good(b, i), errors)

\* bytes.decode(errors="replace"): invalid bytes become U+FFFD
Decode_Replace(b) == DecodeFrom(b, 1, "replace")

\* bytes.decode(errors="ignore"): invalid bytes are dropped
Decode(b) == DecodeFrom(b, 1, "ignore")

\* bytes.strip(): leading and trailing ASCII whitespace removed
Strip(b) ==
    LET nonWs == {i \in 1..Len(b) : b[i] \notin Whitespace}
    IN  IF nonWs = {} THEN <<>>
        ELSE LET lo == CHOOSE i \in nonWs : \A j \in nonWs : i <= j
                 hi == CHOOSE i \in nonWs : \A j \in nonWs : j <= i
             IN  SubSeq(b, lo, hi)

\* line.strip().decode(errors="replace").upper()
LineText_Replace(line) == Upper(Decode_Replace(Strip(line)))

\* line.strip().decode(errors="ignore").upper()
LineText(line) == Upper(Decode(Strip(line)))

\* the set valid = {"UP", "DOWN", "LEFT", "RIGHT"}, spelled out
Spelling(w) ==
    CASE w = "UP" -> Ascii(<<"U", "P">>)
      [] w = "DOWN" -> Ascii(<<"D", "O", "W", "N">>)
      [] w = "LEFT" -> Ascii(<<"L", "E", "F", "T">>)
      [] w = "RIGHT" -> Ascii(<<"R", "I", "G", "H", "T">>)
valid == {"UP", "DOWN", "LEFT", "RIGHT"}

TextInValid(text) == text \in {Spelling(w) : w \in valid}
TextWord(text) == CHOOSE w \in valid : Spelling(w) = text

\* b"\n" in buf
HasNewline(b) == \E i \in 1..Len(b) : b[i] = Newline
\* line, buf = buf.split(b"\n", 1)
FirstNewline(b) == CHOOSE i \in 1..Len(b) : b[i] = Newline /\ \A j \in 1..(i - 1) : b[j] # Newline
SplitLine(b) == SubSeq(b, 1, FirstNewline(b) - 1)
SplitRest(b) == SubSeq(b, FirstNewline(b) + 1, Len(b))

\* the events
Btn(d) == <<"BTN", d>>
Err(m) == <<"ERROR", m>>
OpenFailed == "Failed to open serial port"
ReadFailed == "Serial read error"
NoPyserial == "pyserial not installed; running with keyboard only."

\* event_queue.put
Put(q, e) == Append(q, e)

\* ser.read(32): at most 32 bytes
ReadSize == 32

\* what the device sends while the program runs
Streams == { Ascii(<<"L", "E", "F", "T", "\n", "u", "p", "\n">>) }

\* the smaller of two numbers
Min(a, b) == IF a <= b THEN a ELSE b

(***************************************************************************)
(* serial_reader thread                                                    *)
(***************************************************************************)
\* ReaderOpen without the return of line 27
ReaderOpen_NoReturn ==
    /\ rpc = "open"
    /\ \/ /\ ser' = "open"
          /\ rpc' = "loop"
          /\ UNCHANGED event_queue
       \/ /\ event_queue' = Put(event_queue, Err(OpenFailed))
          /\ rpc' = "loop"
          /\ UNCHANGED ser
    /\ UNCHANGED <<pc, now, gameVars, max_reaction, last_error_msg, action,
                   key, stop_event, buf, wire>>

\* lines 22-27: serial.Serial(...) succeeds, or fails and reports it
ReaderOpen ==
    /\ rpc = "open"
    /\ \/ /\ ser' = "open"
          /\ rpc' = "loop"
          /\ UNCHANGED event_queue
       \/ /\ event_queue' = Put(event_queue, Err(OpenFailed))
          /\ rpc' = "done"
          /\ UNCHANGED ser
    /\ UNCHANGED <<pc, now, gameVars, max_reaction, last_error_msg, action,
                   key, stop_event, buf, wire>>

\* ReaderCheckStop that never looks at the stop flag
ReaderCheckStop_IgnoresStop ==
    /\ rpc = "loop"
    /\ rpc' = "read"
    /\ UNCHANGED <<pc, now, gameVars, max_reaction, last_error_msg, action,
                   key, event_queue, stop_event, buf, wire, ser>>

\* line 32: while not stop_event.is_set()
ReaderCheckStop ==
    /\ rpc = "loop"
    /\ rpc' = IF stop_event THEN "close" ELSE "read"
    /\ UNCHANGED <<pc, now, gameVars, max_reaction, last_error_msg, action,
                   key, event_queue, stop_event, buf, wire, ser>>

\* ReaderRead that returns on a read error instead of leaving the loop
ReaderRead_ReturnOnError ==
    /\ rpc = "read"
    /\ \/ /\ event_queue' = Put(event_queue, Err(ReadFailed))
          /\ rpc' = "done"
          /\ UNCHANGED <<buf, wire>>
       \/ \E n \in 0..Min(ReadSize, Len(wire)) :
            LET data == SubSeq(wire, 1, n)
            IN  /\ wire' = SubSeq(wire, n + 1, Len(wire))
                /\ buf' = IF data # <<>> THEN buf \o data ELSE buf
                /\ rpc' = IF data # <<>> THEN "split" ELSE "loop"
                /\ UNCHANGED event_queue
    /\ UNCHANGED <<pc, now, gameVars, max_reaction, last_error_msg, action,
                   key, stop_event, ser>>

\* ReaderRead that keeps only the last chunk in buf
ReaderRead_DropsPartial ==
    /\ rpc = "read"
    /\ \/ /\ event_queue' = Put(event_queue, Err(ReadFailed))
          /\ rpc' = "close"
          /\ UNCHANGED <<buf, wire>>
       \/ \E n \in 0..Min(ReadSize, Len(wire)) :
            LET data == SubSeq(wire, 1, n)
            IN  /\ wire' = SubSeq(wire, n + 1, Len(wire))
                /\ buf' = IF data # <<>> THEN data ELSE buf
                /\ rpc' = IF data # <<>> THEN "split" ELSE "loop"
                /\ UNCHANGED event_queue
    /\ UNCHANGED <<pc, now, gameVars, max_reaction, last_error_msg, action,
                   key, stop_event, ser>>

\* lines 33-40, 46-47: one ser.read(32)
ReaderRead ==
    /\ rpc = "read"
    /\ \/ /\ event_queue' = Put(event_queue, Err(ReadFailed))
          /\ rpc' = "close"
          /\ UNCHANGED <<buf, wire>>
       \/ \E n \in 0..Min(ReadSize, Len(wire)) :
            LET data == SubSeq(wire, 1, n)
            IN  /\ wire' = SubSeq(wire, n + 1, Len(wire))
                /\ buf' = IF data # <<>> THEN buf \o data ELSE buf
                /\ rpc' = IF data # <<>> THEN "split" ELSE "loop"
                /\ UNCHANGED event_queue
    /\ UNCHANGED <<pc, now, gameVars, max_reaction, last_error_msg, action,
                   key, stop_event, ser>>

\* lines 41-45: one iteration of while b"\n" in buf
ReaderSplit ==
    /\ rpc = "split"
    /\ IF HasNewline(buf)
       THEN \E line \in {SplitLine(buf)} :
            \E text \in {LineText(line)} :
              /\ buf' = SplitRest(buf)
              /\ rpc' = "split"
              /\ IF TextInValid(text)
                 THEN event_queue' = Put(event_queue, Btn(TextWord(text)))
                 ELSE UNCHANGED event_queue
       ELSE /\ rpc' = "loop"
            /\ UNCHANGED <<buf, event_queue>>
    /\ UNCHANGED <<pc, now, gameVars, max_reaction, last_error_msg, action,
                   key, stop_event, wire, ser>>

\* lines 49-52: ser.close()
ReaderClose ==
    /\ rpc = "close"
    /\ \/ ser' = "closed"
       \* close() raises and line 51 swallows the exception
       \/ UNCHANGED ser
    /\ rpc' = "done"
    /\ UNCHANGED <<pc, now, gameVars, max_reaction, last_error_msg, action,
                   key, event_queue, stop_event, buf, wire>>

(***************************************************************************)
(* run_game: the keyboard.  getch() returns -1 when no key is waiting.     *)
(***************************************************************************)
NoKey == 0 - 1
ord_q == 113
ord_Q == 81
ord_x == 120
KEY_DOWN == 258
KEY_UP == 259
KEY_LEFT == 260
KEY_RIGHT == 261
Keys == {NoKey, ord_q, ord_Q, KEY_UP, KEY_DOWN, KEY_LEFT, KEY_RIGHT, ord_x}

\* lines 144, 166: key in (ord("q"), ord("Q"))
IsQuit(k) == k \in {ord_q, ord_Q}

\* KeyAction that lets a device action stand
KeyAction_DeviceFirst(k, a) ==
    IF a # None THEN a
    ELSE IF k = KEY_UP THEN "UP"
    ELSE IF k = KEY_DOWN THEN "DOWN"
    ELSE IF k = KEY_LEFT THEN "LEFT"
    ELSE IF k = KEY_RIGHT THEN "RIGHT"
    ELSE a

\* lines 165-175: the action after the keyboard poll, a the action before it
KeyAction(k, a) ==
    IF k = NoKey THEN a
    ELSE IF k = KEY_UP THEN "UP"
    ELSE IF k = KEY_DOWN THEN "DOWN"
    ELSE IF k = KEY_LEFT THEN "LEFT"
    ELSE IF k = KEY_RIGHT THEN "RIGHT"
    ELSE a

(***************************************************************************)
(* run_game: the round state machine                                       *)
(***************************************************************************)
\* NeedsNewRound that forgets the lives
NeedsNewRound_IgnoringLives(t, l) == t = None

\* NeedsNewRound that stops one life early
NeedsNewRound_LastLife(t, l) == t = None /\ l > 1

\* line 96: target is None and lives > 0
NeedsNewRound(t, l) == t = None /\ l > 0

\* TimedOut with >= for >
TimedOut_AtDeadline(t, n, pt, w) == t # None /\ (~w.nan) /\ n - pt >= w.val

\* TimedOut that does not look at the target
TimedOut_NoTarget(t, n, pt, w) == FloatGt(n - pt, w)

\* TimedOut that fires one clock unit late
TimedOut_OneLate(t, n, pt, w) == t # None /\ FloatGt(n - pt - 1, w)

\* line 103: target is not None and (now - prompt_time) > max_reaction
TimedOut(t, n, pt, w) == t # None /\ FloatGt(n - pt, w)

\* InWindow with < for <=
InWindow_Strict(n, pt, w) == (~w.nan) /\ n - pt < w.val

\* InWindow that closes one clock unit early
InWindow_OneEarly(n, pt, w) == FloatLe(n - pt + 1, w)

\* line 179: (now - prompt_time) <= max_reaction
InWindow(n, pt, w) == FloatLe(n - pt, w)

\* line 138: lives <= 0
GameOver(l) == l <= 0

\* Judged that does not look at the target
Judged_NoTargetCheck(a, t) == a # None

\* line 178: action is not None and target is not None
Judged(a, t) == a # None /\ t # None

\* DrainAction that keeps the first button
DrainAction_FirstWins(e, a) == IF e[1] = "BTN" /\ a = None THEN e[2] ELSE a

\* DrainAction that forgets the button when an error arrives
DrainAction_ClearedByError(e, a) == IF e[1] = "BTN" THEN e[2] ELSE None

\* DrainError that drops the Error events
DrainError_Dropped(e, m) == m

\* lines 156-159: the action and the error message after one event
DrainAction(e, a) == IF e[1] = "BTN" THEN e[2] ELSE a
DrainError(e, m) == IF e[1] = "BTN" THEN m ELSE IF e[1] = "ERROR" THEN e[2] ELSE m

\* the messages of last_info_msg
NoMsg == <<>>
RoundMsg(n, t) == <<"Round", n, t>>
TooSlowMsg(t) == <<"Too slow", t>>
NiceMsg(a) == <<"Nice", a>>
OopsMsg(a, t) == <<"Oops", a, t>>
TooLateMsg(a) == <<"Too late", a>>

\* line 93: now = time.time()
FrameStart ==
    /\ pc = "top"
    /\ \E dt \in 1..MaxDt :
          /\ now + dt <= MaxNow
          /\ now' = now + dt
    /\ pc' = "start"
    /\ UNCHANGED <<gameVars, max_reaction, last_error_msg, action, key,
                   event_queue, stop_event, readerVars>>

\* RoundStart that does not record the prompt time
RoundStart_NoPromptTime ==
    /\ pc = "start"
    /\ IF NeedsNewRound(target, lives)
       THEN \E d \in Directions :
               /\ target' = d
               /\ round_no' = round_no + 1
               /\ last_info_msg' = RoundMsg(round_no + 1, d)
               /\ UNCHANGED prompt_time
       ELSE UNCHANGED <<target, prompt_time, round_no, last_info_msg>>
    /\ pc' = "timeout"
    /\ UNCHANGED <<now, score, lives, max_reaction, last_error_msg, action,
                   key, event_queue, stop_event, readerVars>>

\* lines 95-100: start a new round if needed
RoundStart ==
    /\ pc = "start"
    /\ IF NeedsNewRound(target, lives)
       THEN \E d \in Directions :
               /\ target' = d
               /\ prompt_time' = now
               /\ round_no' = round_no + 1
               /\ last_info_msg' = RoundMsg(round_no + 1, d)
       ELSE UNCHANGED <<target, prompt_time, round_no, last_info_msg>>
    /\ pc' = "timeout"
    /\ UNCHANGED <<now, score, lives, max_reaction, last_error_msg, action,
                   key, event_queue, stop_event, readerVars>>

\* Timeout that forgets to clear the target
Timeout_KeepsTarget ==
    /\ pc = "timeout"
    /\ IF TimedOut(target, now, prompt_time, max_reaction)
       THEN /\ lives' = lives - 1
            /\ last_info_msg' = TooSlowMsg(target)
            /\ UNCHANGED target
       ELSE UNCHANGED <<lives, last_info_msg, target>>
    /\ pc' = "draw"
    /\ UNCHANGED <<now, score, round_no, prompt_time, max_reaction,
                   last_error_msg, action, key, event_queue, stop_event,
                   readerVars>>

\* lines 102-106: check time-out
Timeout ==
    /\ pc = "timeout"
    /\ IF TimedOut(target, now, prompt_time, max_reaction)
       THEN /\ lives' = lives - 1
            /\ last_info_msg' = TooSlowMsg(target)
            /\ target' = None
       ELSE UNCHANGED <<lives, last_info_msg, target>>
    /\ pc' = "draw"
    /\ UNCHANGED <<now, score, round_no, prompt_time, max_reaction,
                   last_error_msg, action, key, event_queue, stop_event,
                   readerVars>>

\* lines 108-138, 150: draw the screen, test for game over, action = None
Draw ==
    /\ pc = "draw"
    /\ IF GameOver(lives)
       THEN /\ pc' = "over"
            /\ UNCHANGED action
       ELSE /\ pc' = "drain"
            /\ action' = None
    /\ UNCHANGED <<now, gameVars, max_reaction, last_error_msg, key,
                   event_queue, stop_event, readerVars>>

\* lines 139-147: game over, wait for q
GameOverWait ==
    /\ pc = "over"
    /\ \E k \in Keys :
          /\ key' = k
          /\ pc' = IF IsQuit(k) THEN "cleanup" ELSE "top"
    /\ UNCHANGED <<now, gameVars, max_reaction, last_error_msg, action,
                   event_queue, stop_event, readerVars>>

\* lines 155-159: event_queue.get_nowait() returns an event
DrainOne ==
    /\ pc = "drain"
    /\ event_queue # <<>>
    /\ action' = DrainAction(Head(event_queue), action)
    /\ last_error_msg' = DrainError(Head(event_queue), last_error_msg)
    /\ event_queue' = Tail(event_queue)
    /\ UNCHANGED <<pc, now, gameVars, max_reaction, key, stop_event,
                   readerVars>>

\* lines 160-161: event_queue.get_nowait() raises queue.Empty
DrainEmpty ==
    /\ pc = "drain"
    /\ event_queue = <<>>
    /\ pc' = "key"
    /\ UNCHANGED <<now, gameVars, max_reaction, last_error_msg, action, key,
                   event_queue, stop_event, readerVars>>

\* lines 163-175: keyboard input
Keyboard ==
    /\ pc = "key"
    /\ \E k \in Keys :
          /\ key' = k
          /\ IF IsQuit(k)
             THEN /\ pc' = "cleanup"
                  /\ UNCHANGED action
             ELSE /\ pc' = "apply"
                  /\ action' = KeyAction(k, action)
    /\ UNCHANGED <<now, gameVars, max_reaction, last_error_msg, event_queue,
                   stop_event, readerVars>>

\* lines 177-192: apply action
Apply ==
    /\ pc = "apply"
    /\ IF Judged(action, target)
       THEN /\ IF InWindow(now, prompt_time, max_reaction)
               THEN IF action = target
                    THEN /\ score' = score + 1
                         /\ last_info_msg' = NiceMsg(action)
                         /\ UNCHANGED lives
                    ELSE /\ lives' = lives - 1
                         /\ last_info_msg' = OopsMsg(action, target)
                         /\ UNCHANGED score
               ELSE /\ lives' = lives - 1
                    /\ last_info_msg' = TooLateMsg(action)
                    /\ UNCHANGED score
            /\ target' = None
       ELSE UNCHANGED <<score, lives, last_info_msg, target>>
    /\ pc' = "top"
    /\ UNCHANGED <<now, round_no, prompt_time, max_reaction, last_error_msg,
                   action, key, event_queue, stop_event, readerVars>>

\* line 195: stop_event.set()
Cleanup ==
    /\ pc = "cleanup"
    /\ stop_event' = TRUE
    /\ pc' = "join"
    /\ UNCHANGED <<now, gameVars, max_reaction, last_error_msg, action, key,
                   event_queue, readerVars>>

\* lines 196-197: serial_thread.join(timeout=1) returns, thread ended or not
Join ==
    /\ pc = "join"
    /\ pc' = "done"
    /\ UNCHANGED <<now, gameVars, max_reaction, last_error_msg, action, key,
                   event_queue, stop_event, readerVars>>

\* lines 112-133, 140: an addstr outside the window raises curses.error, which
\* nothing catches; run_game ends without lines 195-197
DrawError ==
    /\ pc \in {"draw", "over"}
    /\ pc' = "curses.error"
    /\ UNCHANGED <<now, gameVars, max_reaction, last_error_msg, action, key,
                   event_queue, stop_event, readerVars>>

\* Ctrl-C: KeyboardInterrupt is raised in the main thread at the line it has
\* reached, and nothing catches it; run_game ends there.  Interrupt is the
\* exception at the first line of a step; the actions after it are the
\* exception between two statements of a step, which leaves the statements
\* before it done and the ones after it not done.
Interrupt ==
    /\ pc \notin {"done", "curses.error", "KeyboardInterrupt"}
    /\ pc' = "KeyboardInterrupt"
    /\ UNCHANGED <<now, gameVars, max_reaction, last_error_msg, action, key,
                   event_queue, stop_event, readerVars>>

\* lines 97-100 cut short: after target, after prompt_time or after round_no
InterruptRoundStart ==
    /\ pc = "start"
    /\ NeedsNewRound(target, lives)
    /\ \E d \in Directions, done \in 1..3 :
          /\ target' = d
          /\ prompt_time' = IF done >= 2 THEN now ELSE prompt_time
          /\ round_no' = IF done >= 3 THEN round_no + 1 ELSE round_no
    /\ pc' = "KeyboardInterrupt"
    /\ UNCHANGED <<now, score, lives, last_info_msg, max_reaction,
                   last_error_msg, action, key, event_queue, stop_event,
                   readerVars>>

\* lines 104-106 cut short: after lives -= 1 or after the message
InterruptTimeout ==
    /\ pc = "timeout"
    /\ TimedOut(target, now, prompt_time, max_reaction)
    /\ \E done \in 1..2 :
          /\ lives' = lives - 1
          /\ last_info_msg' = IF done >= 2 THEN TooSlowMsg(target)
                                           ELSE last_info_msg
    /\ pc' = "KeyboardInterrupt"
    /\ UNCHANGED <<now, score, round_no, target, prompt_time, max_reaction,
                   last_error_msg, action, key, event_queue, stop_event,
                   readerVars>>

\* lines 155-159 cut short: the event is off the queue, its payload is lost
InterruptDrain ==
    /\ pc = "drain"
    /\ event_queue # <<>>
    /\ event_queue' = Tail(event_queue)
    /\ pc' = "KeyboardInterrupt"
    /\ UNCHANGED <<now, gameVars, max_reaction, last_error_msg, action, key,
                   stop_event, readerVars>>

\* lines 164-175 cut short: a key that sets the action is read, the action
\* is not yet set (after any other key the cut leaves what the whole step
\* leaves)
InterruptKeyboard ==
    /\ pc = "key"
    /\ \E k \in Keys :
          /\ ~IsQuit(k)
          /\ KeyAction(k, action) # action
          /\ key' = k
    /\ pc' = "KeyboardInterrupt"
    /\ UNCHANGED <<now, gameVars, max_reaction, last_error_msg, action,
                   event_queue, stop_event, readerVars>>

\* lines 181-190 cut short: after the score or the life, or after the
\* message, the target not yet cleared
InterruptApply ==
    /\ pc = "apply"
    /\ Judged(action, target)
    /\ \E done \in 1..2 :
          /\ IF InWindow(now, prompt_time, max_reaction) /\ action = target
             THEN score' = score + 1 /\ UNCHANGED lives
             ELSE lives' = lives - 1 /\ UNCHANGED score
          /\ last_info_msg' =
                IF done < 2 THEN last_info_msg
                ELSE IF ~InWindow(now, prompt_time, max_reaction)
                     THEN TooLateMsg(action)
                ELSE IF action = target THEN NiceMsg(action)
                ELSE OopsMsg(action, target)
    /\ pc' = "KeyboardInterrupt"
    /\ UNCHANGED <<now, round_no, target, prompt_time, max_reaction,
                   last_error_msg, action, key, event_queue, stop_event,
                   readerVars>>

(***************************************************************************)
(* The state after lines 58-90 of run_game.  The reader thread is started  *)
(* when a port is given and pyserial is importable.  now and key have no   *)
(* value before the first frame: now is 0, below every clock value, and    *)
(* key is -1.  The clock moves forward by at least one unit per frame.     *)
(***************************************************************************)
Init ==
    /\ pc = "top"
    /\ now = 0
    /\ score = 0
    /\ lives = 3
    /\ round_no = 0
    /\ target = None
    /\ prompt_time = 0
    /\ max_reaction \in ReactionTimes
    /\ last_info_msg = NoMsg
    /\ action = None
    /\ key = NoKey
    /\ event_queue = <<>>
    /\ stop_event = FALSE
    /\ buf = <<>>
    /\ ser = "none"
    /\ \E port \in BOOLEAN, pyserial \in BOOLEAN :
          /\ rpc = IF port /\ pyserial THEN "open" ELSE "none"
          /\ wire \in IF port /\ pyserial THEN Streams ELSE {<<>>}
          /\ last_error_msg = IF port /\ ~pyserial THEN NoPyserial ELSE ""

Next ==
    \/ FrameStart
    \/ RoundStart
    \/ Timeout
    \/ Draw
    \/ GameOverWait
    \/ DrainOne
    \/ DrainEmpty
    \/ Keyboard
    \/ Apply
    \/ Cleanup
    \/ Join
    \/ DrawError
    \/ Interrupt
    \/ InterruptRoundStart
    \/ InterruptTimeout
    \/ InterruptDrain
    \/ InterruptKeyboard
    \/ InterruptApply
    \/ ReaderOpen
    \/ ReaderCheckStop
    \/ ReaderRead
    \/ ReaderSplit
    \/ ReaderClose

Spec == Init /\ [][Next]_vars

(***************************************************************************)
(* The two threads under a fair scheduler.  The main loop never blocks: its *)
(* reads of the queue and of the keyboard return at once and its sleeps     *)
(* end; join(timeout=1) returns; the reader's read has timeout=0 and its    *)
(* sleep ends.  So each thread takes its next step whenever it has one.     *)
(*                                                                         *)
(* FrameLate is a frame that starts after the clock has passed MaxNow.  It  *)
(* is followed only where the program no longer looks at the value of now:  *)
(* in game over (lines 96 and 103 are false with lives = 0 and no target)   *)
(* and with a nan window (lines 103 and 179 are false for every now); now   *)
(* then stays at MaxNow.                                                    *)
(***************************************************************************)
FrameLate ==
    /\ pc = "top"
    /\ now >= MaxNow
    /\ (lives = 0 \/ max_reaction.nan)
    /\ pc' = "start"
    /\ UNCHANGED <<now, gameVars, max_reaction, last_error_msg, action, key,
                   event_queue, stop_event, readerVars>>

MainNext ==
    \/ FrameStart
    \/ FrameLate
    \/ RoundStart
    \/ Timeout
    \/ Draw
    \/ GameOverWait
    \/ DrainOne
    \/ DrainEmpty
    \/ Keyboard
    \/ Apply
    \/ Cleanup
    \/ Join

ReaderNext ==
    \/ ReaderOpen
    \/ ReaderCheckStop
    \/ ReaderRead
    \/ ReaderSplit
    \/ ReaderClose

\* the exceptions may happen; nothing makes them happen
Interrupts ==
    \/ Interrupt
    \/ InterruptRoundStart
    \/ InterruptTimeout
    \/ InterruptDrain
    \/ InterruptKeyboard
    \/ InterruptApply

NextFair == MainNext \/ ReaderNext \/ DrawError \/ Interrupts

(***************************************************************************)
(* The reader thread alone, on every short stream of bytes and a few long  *)
(* ones, while the main loop has not yet run its first frame.              *)
(***************************************************************************)
MaxStream == 4
FramerBytes == {Ord("u"), Ord("P"), Ord(" "), Newline, InvalidByte}
LongStreams ==
    { Ascii(<<" ", "u", "P", " ", "\r", "\n", "x", "\n", "L", "e", "f", "t", "\n", "d", "o">>),
      Ascii(<<"l">>) \o <<InvalidByte>> \o Ascii(<<"e", "f", "t", "\n", "x">>),
      \* 0xC4 0xB1 is the dotless i, whose upper case is I
      Ascii(<<"r">>) \o <<196, 177>> \o Ascii(<<"g", "h", "t", "\n">>),
      \* 0x80 alone is invalid, 0xC3 0x9F is the sharp s, whose upper case is SS
      Ascii(<<"u">>) \o <<128>> \o Ascii(<<"p", "\n">>) \o <<195, 159>> \o Ascii(<<"\n">>) }
FramerStreams == UNION {[1..k -> FramerBytes] : k \in 0..MaxStream} \cup LongStreams

InitFramer ==
    /\ pc = "top"
    /\ now = 0
    /\ score = 0
    /\ lives = 3
    /\ round_no = 0
    /\ target = None
    /\ prompt_time = 0
    /\ max_reaction = Num(1)
    /\ last_info_msg = NoMsg
    /\ last_error_msg = ""
    /\ action = None
    /\ key = NoKey
    /\ event_queue = <<>>
    /\ stop_event = FALSE
    /\ buf = <<>>
    /\ ser = "none"
    /\ rpc = "open"
    /\ wire \in FramerStreams

SpecFramer == InitFramer /\ [][ReaderNext]_vars

\* what the device sends in the runs of SpecFair: one empty line
FairStreams == { Ascii(<<"\n">>) }

\* the --max-reaction value of the runs of SpecFair: an ordinary window
FairReactionTimes == {Num(1)}

InitFair ==
    /\ pc = "top"
    /\ now = 0
    /\ score = 0
    /\ lives = 3
    /\ round_no = 0
    /\ target = None
    /\ prompt_time = 0
    /\ max_reaction \in FairReactionTimes
    /\ last_info_msg = NoMsg
    /\ action = None
    /\ key = NoKey
    /\ event_queue = <<>>
    /\ stop_event = FALSE
    /\ buf = <<>>
    /\ ser = "none"
    /\ \E port \in BOOLEAN, pyserial \in BOOLEAN :
          /\ rpc = IF port /\ pyserial THEN "open" ELSE "none"
          /\ wire \in IF port /\ pyserial THEN FairStreams ELSE {<<>>}
          /\ last_error_msg = IF port /\ ~pyserial THEN NoPyserial ELSE ""

SpecFair ==
    /\ InitFair
    /\ [][NextFair]_vars
    /\ WF_vars(MainNext)
    /\ WF_vars(ReaderNext)

(***************************************************************************)
(* Properties                                                              *)
(***************************************************************************)
FourDirections == {"UP", "DOWN", "LEFT", "RIGHT"}
\* the positions inside the while True loop, and the two ways run_game ends
\* by an exception
LoopPcs == {"top", "start", "timeout", "draw", "over", "drain", "key", "apply"}
Raised == {"curses.error", "KeyboardInterrupt"}
RaiseStep == pc \notin Raised /\ pc' \in Raised
\* the step at position p is cut short by Ctrl-C: run_game ends there, and
\* its local variables, as the cut has left them, end with it
CutStep(p) == pc = p /\ pc' = "KeyboardInterrupt"
\* run_game has not been ended by an exception
Alive == pc \notin Raised
RoundStartStep == pc = "start" /\ pc' = "timeout"
TimeoutStep == pc = "timeout" /\ pc' = "draw"
JudgeStep == pc = "apply" /\ pc' = "top"
WithinWindow == (~max_reaction.nan) /\ now - prompt_time <= max_reaction.val
PastWindow == (~max_reaction.nan) /\ now - prompt_time > max_reaction.val

C2_TickIdempotent ==
    [][ ((RoundStartStep \/ TimeoutStep) /\ target # None /\ WithinWindow)
            => UNCHANGED <<target, round_no, lives, score, prompt_time>> ]_vars

\* C2 witness: one clock unit after the prompt, in a later frame, both steps
\* have run and the round is still on
C2_Witness ==
    /\ pc = "draw"
    /\ target # None
    /\ now = prompt_time + 1
    /\ max_reaction = Num(1)
    /\ round_no = 1
    /\ lives = 3

C4_JudgeCorrect ==
    [][ /\ (JudgeStep /\ action # None /\ target # None /\ WithinWindow)
              => /\ target' = None
                 /\ round_no' = round_no
                 /\ IF action = target
                    THEN score' = score + 1 /\ lives' = lives
                    ELSE lives' = lives - 1 /\ score' = score
        /\ (JudgeStep /\ (action = None \/ target = None))
              => UNCHANGED <<score, lives, round_no, target, prompt_time,
                             last_info_msg>> ]_vars

\* C4 witness: a right answer and a wrong answer have both been judged, the
\* wrong one just now
C4_Witness ==
    /\ pc = "top"
    /\ score = 1
    /\ lives = 2
    /\ round_no = 2
    /\ last_info_msg = <<"Oops", "DOWN", "UP">>
    /\ target = None

DirectionKeys == {KEY_UP, KEY_DOWN, KEY_LEFT, KEY_RIGHT}
QuitKeys == {ord_q, ord_Q}
KeyDirection(k) ==
    CASE k = KEY_UP -> "UP"
      [] k = KEY_DOWN -> "DOWN"
      [] k = KEY_LEFT -> "LEFT"
      [] k = KEY_RIGHT -> "RIGHT"
\* one whole turn of the drain: an event is taken off the channel and handled
DrainRemoves ==
    pc = "drain" /\ pc' = "drain" /\ Len(event_queue') < Len(event_queue)
LoopExit == pc \in LoopPcs /\ pc' \notin LoopPcs
KeyboardStep == pc = "key" /\ pc' # "key" /\ ~RaiseStep

C7_KeyboardPrecedence ==
    [][ /\ (KeyboardStep /\ key' \in DirectionKeys)
              => (action' = KeyDirection(key') /\ pc' = "apply")
        /\ (KeyboardStep /\ key' \notin DirectionKeys /\ key' \notin QuitKeys)
              => (action' = action /\ pc' = "apply")
        /\ (pc = "apply" /\ key \in DirectionKeys)
              => (action = KeyDirection(key) /\ action' = action)
        /\ (JudgeStep /\ key \in DirectionKeys /\ target # None /\ WithinWindow)
              => IF KeyDirection(key) = target
                 THEN score' = score + 1 /\ lives' = lives
                 ELSE score' = score /\ lives' = lives - 1 ]_vars

\* C7 witness: the drain left the right answer UP as the candidate, the
\* keyboard returned DOWN, and DOWN is about to be judged
C7_Witness ==
    /\ pc = "apply"
    /\ key = KEY_DOWN
    /\ action = "DOWN"
    /\ target = "UP"
    /\ event_queue = <<>>
    /\ rpc = "loop"
    /\ buf = <<>>
    /\ wire = <<>>
    /\ round_no = 1

\* C8: when opening the port fails the reader puts exactly one Error event
\* on the channel and ends: it never enters the read loop, never holds a
\* handle and puts nothing on the channel afterwards.
C8_OpenFailure ==
    [][ /\ (rpc = "open" /\ rpc' # "open" /\ ser' # "open")
              => /\ event_queue' = Append(event_queue, <<"ERROR", "Failed to open serial port">>)
                 /\ rpc' = "done"
        /\ (rpc = "done" /\ ser = "none")
              => /\ rpc' = "done"
                 /\ ser' = "none"
                 /\ buf' = buf
                 /\ Len(event_queue') <= Len(event_queue)
        /\ (rpc \in {"loop", "read", "split", "close"}) => ser = "open" ]_vars

\* C8 witness: the open failed, the reader has ended and its one Error event
\* has been drained by the main loop
C8_Witness ==
    /\ rpc = "done"
    /\ ser = "none"
    /\ buf = <<>>
    /\ last_error_msg = "Failed to open serial port"
    /\ event_queue = <<>>
    /\ pc = "apply"

\* C9 as stated: a keyboard poll that returns q or Q, in a round, between
\* rounds or in game over, ends the main loop in that frame without judging
\* anything; and the main loop ends in no other way: every step that leaves
\* the loop is such a poll.
C9_QuitOnlyExit ==
    [][ /\ ((pc = "key" \/ pc = "over") /\ pc' # pc /\ key' \in QuitKeys /\ ~RaiseStep)
              => /\ pc' = "cleanup"
                 /\ UNCHANGED <<score, lives, round_no, target, prompt_time,
                                last_info_msg>>
        /\ LoopExit
              => /\ pc \in {"key", "over"}
                 /\ pc' = "cleanup"
                 /\ key' \in QuitKeys
        /\ (pc \notin LoopPcs)
              => UNCHANGED <<score, lives, round_no, target, prompt_time,
                             last_info_msg>> ]_vars

C10_State ==
    Alive => /\ round_no = 0 => (target = None /\ prompt_time = 0)
             /\ target # None => (prompt_time # 0 /\ round_no >= 1)

C11_LivesBounds ==
    [][ /\ lives \in 0..3
        /\ lives' \in 0..3
        /\ lives' <= lives
        /\ score >= 0
        /\ round_no >= 0
        /\ score' >= score
        /\ round_no' >= round_no
        /\ (now = 0) => (lives = 3 /\ score = 0 /\ round_no = 0) ]_vars

\* C11 witness: the last life has just been lost by a wrong action, in the
\* fourth round, after one right answer
C11_Witness ==
    /\ lives = 0
    /\ score = 1
    /\ round_no = 4
    /\ pc = "top"
    /\ last_info_msg # <<>>
    /\ last_info_msg[1] = "Oops"

\* C12: in a frame where now - prompt_time is exactly reaction_window the
\* time-out step changes nothing, and an action of that frame is judged as
\* in the window: a right one scores, a wrong one costs one life, and the
\* outcome is never a time-out.
AtDeadline == (~max_reaction.nan) /\ now - prompt_time = max_reaction.val
C12_DeadlineBoundary ==
    [][ /\ (TimeoutStep /\ target # None /\ AtDeadline)
              => UNCHANGED <<target, lives, score, round_no, last_info_msg>>
        /\ (JudgeStep /\ action # None /\ target # None /\ AtDeadline)
              => /\ target' = None
                 /\ IF action = target
                    THEN /\ score' = score + 1
                         /\ lives' = lives
                         /\ last_info_msg' = <<"Nice", action>>
                    ELSE /\ score' = score
                         /\ lives' = lives - 1
                         /\ last_info_msg' = <<"Oops", action, target>> ]_vars

\* C12 witness: a right answer is about to be judged exactly at the deadline,
\* one clock unit after the prompt with a window of one unit
C12_Witness ==
    /\ pc = "apply"
    /\ max_reaction = Num(1)
    /\ now = prompt_time + 1
    /\ target = "LEFT"
    /\ action = "LEFT"

ReaderPuts == Len(event_queue') > Len(event_queue)
ReadFailureStep == rpc = "read" /\ rpc' \notin {"read", "split", "loop"}
MainLoopVars == <<pc, now, score, lives, round_no, target, prompt_time,
                  last_info_msg, last_error_msg, action, key, stop_event>>

\* C13 as stated: after a successful open, a failing read makes the reader
\* put exactly one Error event, put nothing afterwards, close the handle and
\* end.  On every way out of the loop (read error or stop signal) the handle
\* is closed once, before the reader ends, and no step of the reader touches
\* the main loop.
C13_ReadFailure ==
    [][ /\ ReadFailureStep
              => /\ event_queue' = Append(event_queue, <<"ERROR", "Serial read error">>)
                 /\ rpc' = "close"
                 /\ ser = "open"
                 /\ ser' = "open"
        /\ (rpc = "loop" /\ rpc' # "loop") => (rpc' = IF stop_event THEN "close" ELSE "read")
        /\ (rpc = "close") => (rpc' \in {"close", "done"} /\ ~ReaderPuts)
        /\ (rpc = "close" /\ rpc' = "done") => (ser = "open" /\ ser' = "closed")
        /\ (rpc = "done") => (rpc' = "done" /\ ser' = ser /\ ~ReaderPuts)
        /\ (ser' # ser) => (rpc = "open" \/ (rpc = "close" /\ rpc' = "done"))
        /\ (rpc' = "done") => ser' \in {"none", "closed"}
        /\ (rpc' # rpc) => UNCHANGED MainLoopVars ]_vars

\* C13: after a successful open, a failing read makes the reader put exactly
\* one Error event, put nothing afterwards, call close once and end.  Every
\* way out of the loop (read error or stop signal) passes through that one
\* call of close before the reader ends; the call closes the handle, or it
\* raises, the exception is dropped and the reader ends with the handle as
\* it was.  No step of the reader touches the main loop.
C13_CloseCalledOnce ==
    [][ /\ ReadFailureStep
              => /\ event_queue' = Append(event_queue, <<"ERROR", "Serial read error">>)
                 /\ rpc' = "close"
                 /\ ser = "open"
                 /\ ser' = "open"
        /\ (rpc = "loop" /\ rpc' # "loop") => (rpc' = IF stop_event THEN "close" ELSE "read")
        /\ (rpc = "close") => (rpc' \in {"close", "done"} /\ ~ReaderPuts)
        /\ (rpc = "close" /\ rpc' = "done") => (ser = "open" /\ ser' \in {"closed", "open"})
        /\ (rpc = "done") => (rpc' = "done" /\ ser' = ser /\ ~ReaderPuts)
        /\ (ser' # ser) => (rpc = "open" \/ (rpc = "close" /\ rpc' = "done"))
        /\ (rpc # "done" /\ rpc' = "done") => rpc \in {"open", "close"}
        /\ (rpc = "open" /\ rpc' = "done") => ser' = "none"
        /\ (rpc' # rpc) => UNCHANGED MainLoopVars ]_vars

\* C13 witness: a read failed, close raised, the reader has ended with the
\* handle still open, and the main loop, still running, has shown the error
C13_Witness ==
    /\ rpc = "done"
    /\ ser = "open"
    /\ last_error_msg = "Serial read error"
    /\ event_queue = <<>>
    /\ pc = "apply"
    /\ stop_event = FALSE
    /\ wire # <<>>

Accounting ==
    round_no = score + (3 - lives) + (IF target # None THEN 1 ELSE 0)

C20_NeverTooLate == last_info_msg = <<>> \/ last_info_msg[1] # "Too late"

\* C14 as stated: the stop flag is set only by the main loop's exit path,
\* after quit, and stays set; a reader that finds it set at the top of its
\* loop leaves the loop, so it finishes at most the iteration it is in;
\* under a fair scheduler it then closes the handle and ends; and the main
\* context gets past the join and returns whether the reader has ended or
\* not.
C14_CooperativeShutdown ==
    /\ [][ /\ (stop_event' # stop_event)
                 => (pc = "cleanup" /\ pc' = "join" /\ stop_event')
           /\ stop_event => pc \notin LoopPcs
           /\ (stop_event /\ rpc = "loop" /\ rpc' # "loop") => rpc' = "close"
           /\ (rpc = "close" /\ rpc' = "done") => ser' = "closed"
           /\ (pc = "join" /\ pc' # "join") => pc' = "done" ]_vars
    /\ (stop_event /\ rpc \in {"loop", "read", "split", "close"})
          ~> (rpc = "done" /\ ser = "closed")
    /\ (pc = "join") ~> (pc = "done")

\* C14: the stop flag is set only by the main loop's exit path, after quit,
\* and stays set; a reader that finds it set at the top of its loop leaves
\* the loop, so it finishes at most the iteration it is in; under a fair
\* scheduler it then calls close, which closes the handle unless it raises,
\* and ends; and the main context gets past the join whether the reader has
\* ended or not: it returns, or a Ctrl-C during the join ends it.  The flag
\* is set by the step that enters the join and both ends are final, so the
\* two progress conditions are one: once the flag is set, eventually the
\* reader has ended and the main context is past the join.
C14_ShutdownBestEffort ==
    /\ [][ /\ (stop_event' # stop_event)
                 => (pc = "cleanup" /\ pc' = "join" /\ stop_event')
           /\ stop_event => pc \notin LoopPcs
           /\ (stop_event /\ rpc = "loop" /\ rpc' # "loop") => rpc' = "close"
           /\ (rpc = "close" /\ rpc' = "done") => ser' \in {"closed", "open"}
           /\ (pc = "join" /\ pc' # "join") => pc' \in {"done", "KeyboardInterrupt"}
           /\ (pc = "join") => stop_event
           /\ (rpc = "done") => rpc' = "done"
           /\ (pc \in {"done", "KeyboardInterrupt"}) => pc' = pc ]_vars
    /\ stop_event ~> (/\ rpc \in {"none", "done"}
                      /\ pc \in {"done", "KeyboardInterrupt"})

\* C14 witness: the main context has returned while the reader, not yet at
\* the top of its loop, is still splitting the bytes of its last read
C14_Witness ==
    /\ pc = "done"
    /\ stop_event
    /\ rpc = "split"
    /\ ser = "open"
    /\ buf # <<>>

HasError(q) == \E i \in 1..Len(q) : q[i][1] = "ERROR"
ErrorPending == HasError(event_queue)
ErrorShown == ~HasError(event_queue) /\ last_error_msg \in {OpenFailed, ReadFailed}
\* the main loop has ended, by quit or by an exception
LoopEnded == pc \notin LoopPcs
\* the main loop keeps running: the frame under way has not passed its
\* drain, or the clock that is followed has room for the frame after it
\* (FrameStart or FrameLate is enabled when the loop is back at its top)
FrameAhead ==
    \/ pc \in {"start", "timeout", "draw", "drain"}
    \/ /\ pc \in {"top", "over", "key", "apply"}
       /\ (now < MaxNow \/ lives = 0 \/ max_reaction.nan)
IsPrefix(p, q) == Len(p) <= Len(q) /\ SubSeq(q, 1, Len(p)) = p

\* C18 as stated: in every game state, game over included, an Error event
\* on the channel is eventually drained and shown as the latest error
\* message, whenever the main loop keeps running, unless it is left.
C18_EveryErrorSurfaced ==
    (ErrorPending /\ FrameAhead) ~> (ErrorShown \/ LoopEnded)

\* C18: while lives > 0 and the main loop keeps running, an Error event on
\* the channel is eventually drained and shown as the latest error message,
\* unless the main loop is left or the last life is lost first.  A frame
\* with lives > 0 goes from the drawing to the drain, the drain ends only on
\* an empty channel, and every Error event it removes becomes the latest
\* error message; once lives is 0 no frame drains the channel, so the events
\* on it stay there and the latest error message never changes.
C18_ErrorSurfacedWhileAlive ==
    /\ (ErrorPending /\ FrameAhead /\ lives > 0)
          ~> (ErrorShown \/ LoopEnded \/ lives = 0)
    /\ [][ /\ (DrainRemoves /\ Head(event_queue)[1] = "ERROR")
                 => last_error_msg' = Head(event_queue)[2]
           /\ (pc = "draw" /\ pc' # "draw" /\ lives > 0 /\ ~RaiseStep)
                 => pc' = "drain"
           /\ (pc = "drain" /\ pc' # "drain" /\ ~RaiseStep)
                 => (pc' = "key" /\ event_queue = <<>>)
           /\ lives = 0 => /\ last_error_msg' = last_error_msg
                           /\ IsPrefix(event_queue, event_queue')
                           /\ pc' \notin {"drain", "key", "apply"} ]_vars

\* a read error was drained and is shown while the game is still on
C18_Witness ==
    /\ pc = "key"
    /\ lives > 0
    /\ event_queue = <<>>
    /\ last_error_msg = ReadFailed
    /\ rpc = "done"

\* the Button events of a channel, in order
Btns(q) == SelectSeq(q, LAMBDA e : e[1] = "BTN")

\* the newline-terminated lines of a stream from position from on, in order
RECURSIVE LinesFrom(_, _)
LinesFrom(s, from) ==
    IF \E i \in from..Len(s) : s[i] = Newline
    THEN LET e == CHOOSE i \in from..Len(s) :
                     s[i] = Newline /\ \A j \in from..(i - 1) : s[j] # Newline
         IN  <<SubSeq(s, from, e - 1)>> \o LinesFrom(s, e + 1)
    ELSE <<>>

\* the Button events of the lines that are vocabulary words, in order
RECURSIVE LineTokens(_)
LineTokens(lines) ==
    IF lines = <<>> THEN <<>>
    ELSE (IF TextInValid(LineText(Head(lines)))
          THEN <<Btn(TextWord(LineText(Head(lines))))>>
          ELSE <<>>) \o LineTokens(Tail(lines))

StreamTokens(s) == LineTokens(LinesFrom(s, 1))

\* C15: however the stream is cut into reads, the Button events published so
\* far followed by the words among the newline-terminated lines of what is
\* still to be framed (the retained partial line and the bytes not yet read)
\* are, in order, the words among the newline-terminated lines of the whole
\* stream; events are only appended; a read appends its chunk to the
\* retained partial line; the reader reads again only when no complete line
\* is left in the buffer, and the bytes after the last newline give no event.
C15_FramingIndependentOfChunking ==
    [][ /\ Btns(event_queue') \o StreamTokens(buf' \o wire')
             = Btns(event_queue) \o StreamTokens(buf \o wire)
        /\ IsPrefix(event_queue, event_queue')
        /\ (rpc = "read" /\ rpc' = "split")
              => (IsPrefix(buf, buf') /\ buf' \o wire' = buf \o wire)
        /\ rpc' \in {"loop", "read"} => ~HasNewline(buf')
        /\ ~HasNewline(buf) => event_queue' = event_queue \/ rpc \in {"open", "read"} ]_vars

\* UP was published, then a read ended in the middle of the line Left
C15_Witness ==
    /\ rpc = "read"
    /\ event_queue = <<Btn("UP")>>
    /\ buf = Ascii(<<"L", "e">>)
    /\ wire = Ascii(<<"f", "t", "\n", "d", "o">>)

\* body is line without its leading and trailing whitespace
IsTrimOf(body, line) ==
    \E lo \in 1..(Len(line) + 1), hi \in 0..Len(line) :
        /\ body = SubSeq(line, lo, hi)
        /\ \A i \in 1..(lo - 1) : line[i] \in Whitespace
        /\ \A i \in (hi + 1)..Len(line) : line[i] \in Whitespace
        /\ body # <<>> => (body[1] \notin Whitespace /\ body[Len(body)] \notin Whitespace)
        /\ body = <<>> => lo = hi + 1
Trims(line) == {SubSeq(line, lo, hi) : lo \in 1..(Len(line) + 1), hi \in 0..Len(line)}
\* line is the word w when invalid bytes are substituted
YieldsSubstituted(line, w) ==
    \E body \in Trims(line) :
        /\ IsTrimOf(body, line)
        /\ Upper(Decode_Replace(body)) = Spelling(w)
\* line is the word w when invalid bytes are removed after the trimming
YieldsIgnored(line, w) ==
    \E body \in Trims(line) :
        /\ IsTrimOf(body, line)
        /\ Upper(Decode(body)) = Spelling(w)
\* the reader takes one complete line off the buffer
LineStep == rpc = "split" /\ HasNewline(buf)

\* C16 as stated: a completed line gives the Button event of a word exactly
\* when, trimmed, decoded with invalid bytes substituted and upper-cased, it
\* is that word; any other line gives no event and no error.
C16_SubstitutingFilter ==
    [][ LineStep =>
          /\ \A w \in valid : YieldsSubstituted(SplitLine(buf), w)
                                <=> event_queue' = Put(event_queue, Btn(w))
          /\ (\A w \in valid : ~YieldsSubstituted(SplitLine(buf), w))
                => event_queue' = event_queue ]_vars

\* C16: a completed line gives the Button event of a word exactly when,
\* trimmed of surrounding whitespace bytes, then decoded with invalid bytes
\* removed, then upper-cased, it is that word; any other line gives no
\* event and no error.
C16_IgnoringFilter ==
    [][ LineStep =>
          /\ \A w \in valid : YieldsIgnored(SplitLine(buf), w)
                                <=> event_queue' = Put(event_queue, Btn(w))
          /\ (\A w \in valid : ~YieldsIgnored(SplitLine(buf), w))
                => event_queue' = event_queue ]_vars

\* the line l#FFeft was taken off the buffer and gave LEFT
C16_Witness ==
    /\ rpc = "split"
    /\ event_queue = <<Btn("LEFT")>>
    /\ buf = Ascii(<<"x">>)
    /\ wire = <<>>

====
